---- MODULE Spec2Model ----
(***************************************************************************)
(* A model of hooks/adr_scanner.py: the scan of a source directory for     *)
(* markdown files, the rendering of a (grouped) link list, and its         *)
(* substitution between two markers of a target file.                      *)
(*                                                                         *)
(* Text is modelled character by character: a string is a sequence of      *)
(* one-character strings, a path is a sequence of segments, each a string. *)
(***************************************************************************)
EXTENDS Integers, Sequences, FiniteSets, TLC

(***************************************************************************)
(* Characters and strings                                                  *)
(***************************************************************************)
LowerLetters == <<"a","b","c","d","e","f","g","h","i","j","k","l","m",
                  "n","o","p","q","r","s","t","u","v","w","x","y","z">>
UpperLetters == <<"A","B","C","D","E","F","G","H","I","J","K","L","M",
                  "N","O","P","Q","R","S","T","U","V","W","X","Y","Z">>
Digits == <<"0","1","2","3","4","5","6","7","8","9">>

IndexOf(c, table) ==
  IF \E i \in 1..Len(table) : table[i] = c
  THEN CHOOSE i \in 1..Len(table) : table[i] = c
  ELSE 0

IsLower(c) == IndexOf(c, LowerLetters) > 0
IsUpper(c) == IndexOf(c, UpperLetters) > 0
IsCased(c) == IsLower(c) \/ IsUpper(c)

\* The code point of a character (ASCII), the order Python compares strings by.
Code(c) ==
  IF IsLower(c) THEN 96 + IndexOf(c, LowerLetters)
  ELSE IF IsUpper(c) THEN 64 + IndexOf(c, UpperLetters)
  ELSE IF IndexOf(c, Digits) > 0 THEN 47 + IndexOf(c, Digits)
  ELSE CASE c = "\t" -> 9  [] c = "\n" -> 10 [] c = " " -> 32 [] c = "!" -> 33
         [] c = "#" -> 35  [] c = "(" -> 40  [] c = ")" -> 41 [] c = "*" -> 42
         [] c = "-" -> 45  [] c = "." -> 46  [] c = "/" -> 47 [] c = "<" -> 60
         [] c = ">" -> 62  [] c = "?" -> 63  [] c = "[" -> 91 [] c = "\\" -> 92
         [] c = "]" -> 93  [] c = "_" -> 95

LowerChar(c) == IF IsUpper(c) THEN LowerLetters[IndexOf(c, UpperLetters)] ELSE c
UpperChar(c) == IF IsLower(c) THEN UpperLetters[IndexOf(c, LowerLetters)] ELSE c

\* str.lower(), str.upper()
Lower(s) == [i \in 1..Len(s) |-> LowerChar(s[i])]
Upper(s) == [i \in 1..Len(s) |-> UpperChar(s[i])]

\* str.title(): a cased character is upper-cased when the one before it is not
\* cased, and lower-cased otherwise.
Title(s) ==
  [i \in 1..Len(s) |->
     IF i > 1 /\ IsCased(s[i-1]) THEN LowerChar(s[i]) ELSE UpperChar(s[i])]

\* Whitespace, as str.strip() and the regex class \s see it.
IsSpace(c) == c \in {" ", "\t", "\n", "\r"}

RECURSIVE Cat(_)
\* The concatenation of a sequence of strings.
Cat(ss) == IF ss = <<>> THEN <<>> ELSE Head(ss) \o Cat(Tail(ss))

RECURSIVE Join(_, _)
\* sep.join(parts)
Join(sep, parts) ==
  IF parts = <<>> THEN <<>>
  ELSE IF Len(parts) = 1 THEN parts[1]
  ELSE parts[1] \o sep \o Join(sep, Tail(parts))

RECURSIVE Repeat(_, _)
\* s * n
Repeat(s, n) == IF n <= 0 THEN <<>> ELSE s \o Repeat(s, n - 1)

\* s[i:] and s[:i] with 1-based, inclusive positions.
From(s, i) == SubSeq(s, i, Len(s))
Upto(s, i) == SubSeq(s, 1, i)

\* p occurs in s at position i.
OccursAt(s, p, i) ==
  /\ i >= 1
  /\ i + Len(p) - 1 <= Len(s)
  /\ \A k \in 1..Len(p) : s[i + k - 1] = p[k]

RECURSIVE Find(_, _, _)
\* The least position >= from at which p occurs in s, 0 when there is none.
Find(s, p, from) ==
  IF from + Len(p) - 1 > Len(s) THEN 0
  ELSE IF OccursAt(s, p, from) THEN from
  ELSE Find(s, p, from + 1)

Contains(s, p) == Find(s, p, 1) > 0

\* str.strip(): leading and trailing whitespace removed.
Strip(s) ==
  LET keep == {i \in 1..Len(s) : ~IsSpace(s[i])}
  IN IF keep = {} THEN <<>>
     ELSE SubSeq(s, CHOOSE i \in keep : \A j \in keep : i <= j,
                    CHOOSE i \in keep : \A j \in keep : i >= j)

\* s.lstrip(chars): every leading character that is in chars removed.
LStripChars(s, chars) ==
  LET keep == {i \in 1..Len(s) : s[i] \notin chars}
  IN IF keep = {} THEN <<>>
     ELSE From(s, CHOOSE i \in keep : \A j \in keep : i <= j)

\* s.replace(c, r) for a single character c.
ReplaceChar(s, c, r) ==
  Cat([i \in 1..Len(s) |-> IF s[i] = c THEN r ELSE <<s[i]>>])

RECURSIVE SplitOn(_, _)
\* s.split(c): the pieces of s between the occurrences of character c.
SplitOn(s, c) ==
  LET i == Find(s, <<c>>, 1)
  IN IF i = 0 THEN <<s>>
     ELSE <<Upto(s, i - 1)>> \o SplitOn(From(s, i + 1), c)

\* str.splitlines(): as split on the newline, without the empty last piece
\* that a final newline (or an empty text) leaves.
SplitLines(s) ==
  LET parts == SplitOn(s, "\n")
  IN IF parts[Len(parts)] = <<>> THEN Upto(parts, Len(parts) - 1) ELSE parts

\* Path.read_text(): the file is opened in text mode with universal newlines,
\* so a carriage return with the line feed after it, and a carriage return
\* alone, are read as one line feed.
read_text(raw) ==
  LET kept == SelectSeq([i \in 1..Len(raw) |-> i],
                        LAMBDA i : ~(raw[i] = "\n" /\ i > 1 /\ raw[i - 1] = "\r"))
  IN <<>> \o [k \in 1..Len(kept) |-> IF raw[kept[k]] = "\r" THEN "\n" ELSE raw[kept[k]]]

\* os.linesep where the script runs: a line feed (POSIX).
LineSep == <<"\n">>

\* Path.write_text(): the file is opened in text mode, so every line feed is
\* written as os.linesep.
write_text(text) == Join(LineSep, SplitOn(text, "\n"))

RECURSIVE StrLess(_, _)
\* a < b for Python strings: lexicographic by code point.
StrLess(a, b) ==
  IF b = <<>> THEN FALSE
  ELSE IF a = <<>> THEN TRUE
  ELSE IF Code(a[1]) # Code(b[1]) THEN Code(a[1]) < Code(b[1])
  ELSE StrLess(Tail(a), Tail(b))

\* Sort keys are pairs <<number, string>>, compared as Python tuples.
KeyLess(k1, k2) == k1[1] < k2[1] \/ (k1[1] = k2[1] /\ StrLess(k1[2], k2[2]))

RECURSIVE InsertByKey(_, _)
\* One step of a stable sort: the pair goes after every pair not greater than it.
InsertByKey(sorted, pair) ==
  IF sorted = <<>> THEN <<pair>>
  ELSE IF KeyLess(pair[1], sorted[1][1]) THEN <<pair>> \o sorted
  ELSE <<sorted[1]>> \o InsertByKey(Tail(sorted), pair)

RECURSIVE SortPairs(_)
\* sorted(...) on <<key, value>> pairs: ascending by key, stable.
SortPairs(pairs) ==
  IF pairs = <<>> THEN <<>>
  ELSE InsertByKey(SortPairs(Upto(pairs, Len(pairs) - 1)), pairs[Len(pairs)])

\* sorted(items, key=Key) for a sequence of items.
Values(pairs) == [i \in 1..Len(pairs) |-> pairs[i][2]]

(***************************************************************************)
(* Paths (pathlib, posixpath)                                              *)
(***************************************************************************)
Slash == <<"/">>
Dot == <<".">>
DotDot == <<".", ".">>

\* Path.name
Name(path) == path[Len(path)]
\* Path.parent
Parent(path) == Upto(path, Len(path) - 1)

\* str.rfind("."), 1-based, 0 when there is no dot.
LastDot(name) ==
  LET dots == {i \in 1..Len(name) : name[i] = "."}
  IN IF dots = {} THEN 0 ELSE CHOOSE i \in dots : \A j \in dots : i >= j

\* Path.suffix: from the last dot, unless the dot is the first or last character.
Suffix(path) ==
  LET name == Name(path)
      i == LastDot(name)
  IN IF 1 < i /\ i < Len(name) THEN From(name, i) ELSE <<>>

\* Path.stem
Stem(path) ==
  LET name == Name(path)
      i == LastDot(name)
  IN IF 1 < i /\ i < Len(name) THEN Upto(name, i - 1) ELSE name

\* Path.as_posix() of an absolute path.
AsPosix(path) == Slash \o Join(Slash, path)
\* Path.as_posix() of a relative path.
RelPosix(rel) == Join(Slash, rel)

IsUnder(path, dir) == Len(path) > Len(dir) /\ Upto(path, Len(dir)) = dir
\* Path.relative_to(dir).parts
RelativeTo(path, dir) == SubSeq(path, Len(dir) + 1, Len(path))

RECURSIVE Normalize(_, _)
\* (base / rel).resolve(): the segments of rel applied to base one by one,
\* "." staying in place and ".." going up (never above the root).
Normalize(base, rel) ==
  IF rel = <<>> THEN base
  ELSE IF rel[1] = Dot \/ rel[1] = <<>> THEN Normalize(base, Tail(rel))
  ELSE IF rel[1] = DotDot
       THEN Normalize(IF base = <<>> THEN base ELSE Parent(base), Tail(rel))
  ELSE Normalize(Append(base, rel[1]), Tail(rel))

\* The non-empty pieces of a path string.
Pieces(s) == SelectSeq(SplitOn(s, "/"), LAMBDA x : x # <<>>)

RECURSIVE CommonLen(_, _)
\* len(os.path.commonprefix([a, b])) on lists of segments.
CommonLen(a, b) ==
  IF a = <<>> \/ b = <<>> \/ a[1] # b[1] THEN 0
  ELSE 1 + CommonLen(Tail(a), Tail(b))

\* os.path.relpath(path, start=start) for two absolute, normalized path strings.
RelPath(path, start) ==
  LET start_list == Pieces(start)
      path_list == Pieces(path)
      i == CommonLen(start_list, path_list)
      rel_list == [k \in 1..(Len(start_list) - i) |-> DotDot]
                    \o SubSeq(path_list, i + 1, Len(path_list))
  IN IF rel_list = <<>> THEN Dot ELSE Join(Slash, rel_list)

(***************************************************************************)
(* File discovery                                                          *)
(***************************************************************************)
RECURSIVE fnmatch(_, _)
\* fnmatch.fnmatch(name, pat) for patterns of literals, "?" and "*": the
\* pattern has to match the whole name, and "*" matches any run of
\* characters, "/" included.
fnmatch(name, pat) ==
  IF pat = <<>> THEN name = <<>>
  ELSE IF pat[1] = "*"
       THEN fnmatch(name, Tail(pat)) \/ (name # <<>> /\ fnmatch(Tail(name), pat))
  ELSE IF pat[1] = "?"
       THEN name # <<>> /\ fnmatch(Tail(name), Tail(pat))
  ELSE name # <<>> /\ name[1] = pat[1] /\ fnmatch(Tail(name), Tail(pat))

\* pat.replace("\\", "/").lstrip("./"): lstrip takes a set of characters, so
\* every leading "." and "/" goes.
normalize_glob(pat) == LStripChars(ReplaceChar(pat, "\\", Slash), {".", "/"})

\* [e.strip() for e in args.extensions.split(",") if e.strip()]
ParseExts(extensions) ==
  LET parts == SplitOn(extensions, ",")
      kept == SelectSeq(parts, LAMBDA e : Strip(e) # <<>>)
  IN {Strip(kept[i]) : i \in 1..Len(kept)}

\* The test of one directory entry in iter_markdown_files.
Qualifies(path, src_dir, ex_patterns, exts) ==
  /\ LStripChars(Suffix(path), {"."}) \in exts
  /\ ~\E k \in 1..Len(ex_patterns) :
        fnmatch(RelPosix(RelativeTo(path, src_dir)), normalize_glob(ex_patterns[k]))

\* iter_markdown_files: the entries of the walk, in the walk's order, that are
\* regular files with an accepted extension and match no exclusion pattern.
iter_markdown_files(walk, src_dir, ex_patterns, exts) ==
  SelectSeq(walk, LAMBDA p : Qualifies(p, src_dir, ex_patterns, exts))

(***************************************************************************)
(* Titles                                                                  *)
(***************************************************************************)
\* What H1_REGEX matches on one line: <<TRUE, group 1 stripped>> or <<FALSE, "">>.
\* ^[ \t]*#[ \t]+(.+?)\s*$ needs blanks, "#", at least one blank and at least one
\* more character; when only blanks follow the "#", the last of two or more is
\* taken as the group, which strips to the empty string.
H1OnLine(line) ==
  LET t == LStripChars(line, {" ", "\t"})
      rest == IF t = <<>> THEN <<>> ELSE Tail(t)
      r == LStripChars(rest, {" ", "\t"})
      b == Len(rest) - Len(r)
  IN IF t = <<>> \/ t[1] # "#" \/ b = 0 THEN <<FALSE, <<>>>>
     ELSE IF r # <<>> THEN <<TRUE, Strip(r)>>
     ELSE IF b >= 2 THEN <<TRUE, <<>>>>
     ELSE <<FALSE, <<>>>>

\* first_h1: the group of the leftmost match (a match starts at a line's start),
\* stripped; <<FALSE, "">> stands for None.
first_h1(text) ==
  LET lines == SplitOn(text, "\n")
      hits == {i \in 1..Len(lines) : H1OnLine(lines[i])[1]}
  IN IF hits = {} THEN <<FALSE, <<>>>>
     ELSE H1OnLine(lines[CHOOSE i \in hits : \A j \in hits : i <= j])

\* title_for: the first heading when it has text, else the first line that is
\* not blank, else the stem; the stem too when the file cannot be read.
title_for(path, file) ==
  LET text == read_text(file.text)
      h == first_h1(text)
      lines == SplitLines(text)
      full == {i \in 1..Len(lines) : Strip(lines[i]) # <<>>}
  IN IF ~file.readable THEN Stem(path)
     ELSE IF h[1] /\ h[2] # <<>> THEN h[2]
     ELSE IF full # {} THEN Strip(lines[CHOOSE i \in full : \A j \in full : i <= j])
     ELSE Stem(path)

(***************************************************************************)
(* Sorting, grouping and rendering                                         *)
(***************************************************************************)
\* str.rstrip()
RStrip(s) ==
  LET keep == {i \in 1..Len(s) : ~IsSpace(s[i])}
  IN IF keep = {} THEN <<>>
     ELSE Upto(s, CHOOSE i \in keep : \A j \in keep : i >= j)

\* seq[:n] as Python slices: a negative n counts from the end.
SliceTo(seq, n) ==
  IF n >= 0 THEN Upto(seq, IF n < Len(seq) THEN n ELSE Len(seq))
  ELSE Upto(seq, IF Len(seq) + n > 0 THEN Len(seq) + n ELSE 0)

\* sort_key: (st_mtime, lowered name), (lowered posix path,) or (lowered name,);
\* a one-element tuple is the pair <<0, string>>.
sort_key(sort, path, fsys) ==
  IF sort = "mtime"
  THEN IF path \in DOMAIN fsys
       THEN <<fsys[path].mtime, Lower(Name(path))>>
       ELSE <<0, Lower(Name(path))>>
  ELSE IF sort = "path" THEN <<0, Lower(AsPosix(path))>>
  ELSE <<0, Lower(Name(path))>>

\* sorted(found, key=lambda p: sort_key(sort, p))
SortFiles(found, sort, fsys) ==
  Values(SortPairs([i \in 1..Len(found) |-> <<sort_key(sort, found[i], fsys), found[i]>>]))

\* apply_case
apply_case(s, mode) ==
  IF mode = "title" THEN Title(ReplaceChar(ReplaceChar(s, "-", <<" ">>), "_", <<" ">>))
  ELSE IF mode = "upper" THEN Upper(s)
  ELSE IF mode = "lower" THEN Lower(s)
  ELSE s

\* A variant of group_key_for that keys a file by its innermost directories.
group_key_for_last(path, src_dir, depth) ==
  LET rel_parts == RelativeTo(path, src_dir)
      dirs == Upto(rel_parts, Len(rel_parts) - 1)
  IN IF dirs = <<>> THEN <<>>
     ELSE Join(Slash, SubSeq(dirs, IF Len(dirs) > depth THEN Len(dirs) - depth + 1 ELSE 1,
                             Len(dirs)))

\* group_key_for: the first depth directories of the path under src_dir, joined
\* with "/"; the empty string for a file directly in src_dir.
group_key_for(path, src_dir, depth) ==
  LET rel_parts == RelativeTo(path, src_dir)
      dirs == Upto(rel_parts, Len(rel_parts) - 1)
  IN IF dirs = <<>> THEN <<>>
     ELSE Join(Slash, SliceTo(dirs, depth))

\* link_title of list_item
LinkTitle(f, fsys) == title_for(f, fsys[f])

\* A variant of LinkPath that computes the link from the source directory.
LinkPathFromSrc(f, target_file, src_dir) == RelPath(AsPosix(f), AsPosix(src_dir))

\* rel_link of list_item
LinkPath(f, target_file, src_dir) == RelPath(AsPosix(f), AsPosix(Parent(target_file)))

\* list_item: "- [safe_title](rel_link)" with the title's brackets escaped.
list_item(link_title, rel_link) ==
  LET safe_title == ReplaceChar(ReplaceChar(link_title, "[", <<"\\", "[">>),
                                "]", <<"\\", "]">>)
  IN <<"-", " ", "[">> \o safe_title \o <<"]", "(">> \o rel_link \o <<")">>

RECURSIVE Distinct(_)
\* The keys of a dict filled in this order: each value once, at its first place.
Distinct(seq) ==
  IF seq = <<>> THEN <<>>
  ELSE LET front == Distinct(Upto(seq, Len(seq) - 1))
           x == seq[Len(seq)]
       IN IF \E i \in 1..Len(front) : front[i] = x THEN front ELSE Append(front, x)

\* A variant of GroupOrder that puts the group of the empty key last.
GroupOrderMiscLast(keys) ==
  LET named == SelectSeq(keys, LAMBDA k : k # <<>>)
      sorted == Values(SortPairs([i \in 1..Len(named) |-> <<<<0, Lower(named[i])>>, named[i]>>]))
  IN IF Len(named) < Len(keys) THEN Append(sorted, <<>>) ELSE sorted

\* sorted(groups.keys(), key=lambda k: k.lower())
GroupOrder(keys) ==
  Values(SortPairs([i \in 1..Len(keys) |-> <<<<0, Lower(keys[i])>>, keys[i]>>]))

\* The header line of a group.
GroupHeader(key, group_heading_level, group_title_case) ==
  LET title == apply_case(IF key # <<>> THEN key ELSE <<"M", "i", "s", "c">>,
                          group_title_case)
  IN Repeat(<<"#">>, IF group_heading_level > 1 THEN group_heading_level ELSE 1)
       \o <<" ">> \o title

\* build_list_markdown, given each file's list item.
build_list_markdown(found, items, src_dir, group_by, group_depth, group_heading_level, group_title_case) ==
  IF group_by = "none"
  THEN Join(<<"\n">>, [i \in 1..Len(found) |-> items[found[i]]])
         \o (IF found # <<>> THEN <<"\n">> ELSE <<>>)
  ELSE LET key(f) == group_key_for(f, src_dir, group_depth)
           keys == GroupOrder(Distinct([i \in 1..Len(found) |-> key(found[i])]))
           members(k) == SelectSeq(found, LAMBDA f : key(f) = k)
           block(k) == <<GroupHeader(k, group_heading_level, group_title_case)>>
                         \o [i \in 1..Len(members(k)) |-> items[members(k)[i]]]
                         \o << <<>> >>
           out == Cat([i \in 1..Len(keys) |-> block(keys[i])])
       IN RStrip(Join(<<"\n">>, out)) \o (IF out # <<>> THEN <<"\n">> ELSE <<>>)

(***************************************************************************)
(* Marker substitution                                                     *)
(***************************************************************************)
\* A variant of MarkerSpan that takes an end marker anywhere in the content.
MarkerSpanAnyEnd(content, start, end) ==
  LET cands == {i \in 1..(Len(content) + 1) :
                  OccursAt(content, start, i) /\ Find(content, end, 1) > 0}
      i0 == CHOOSE i \in cands : \A j \in cands : i <= j
      j0 == IF Find(content, end, i0 + Len(start)) > 0
            THEN Find(content, end, i0 + Len(start))
            ELSE Len(content) + 1
  IN IF cands = {} THEN <<0, 0>> ELSE <<i0, j0>>

\* The span the pattern (start)(.*?)end matches first: the leftmost start that
\* has an end somewhere after it, and the nearest such end.
\* <<0, 0>> when there is no match.
MarkerSpan(content, start, end) ==
  LET cands == {i \in 1..(Len(content) + 1) :
                  OccursAt(content, start, i) /\ Find(content, end, i + Len(start)) > 0}
      i0 == CHOOSE i \in cands : \A j \in cands : i <= j
  IN IF cands = {} THEN <<0, 0>>
     ELSE <<i0, Find(content, end, i0 + Len(start))>>

\* A variant of replace_between_markers that takes the text after the span from
\* the end marker on (the end of group 2 instead of the end of the match).
replace_between_markers_keepend(content, start, end, replacement) ==
  LET m == MarkerSpan(content, start, end)
      before == Upto(content, m[1] - 1)
      after == From(content, m[2])
      new == before \o start \o <<"\n">> \o replacement \o end \o after
  IN IF m[1] = 0 THEN [ok |-> FALSE, new |-> content, changed |-> FALSE]
     ELSE [ok |-> TRUE, new |-> new, changed |-> new # content]

\* replace_between_markers: ok is FALSE where the code raises RuntimeError.
replace_between_markers(content, start, end, replacement) ==
  LET m == MarkerSpan(content, start, end)
      before == Upto(content, m[1] - 1)
      after == From(content, m[2] + Len(end))
      new == before \o start \o <<"\n">> \o replacement \o end \o after
  IN IF m[1] = 0 THEN [ok |-> FALSE, new |-> content, changed |-> FALSE]
     ELSE [ok |-> TRUE, new |-> new, changed |-> new # content]

(***************************************************************************)
(* The file system and the run of main                                     *)
(***************************************************************************)
VARIABLES
  fsDirs,      \* the directories that exist (absolute paths)
  fsFiles,     \* the regular files: path |-> [readable, text, mtime]
  fsClock,     \* the modification time the next write gets
  args,        \* the parsed command line (parse_args)
  pc,          \* where the run of main (or of the test) stands
  run,         \* the number of this invocation of the script
  exits,       \* the exit statuses of the invocations before this one
  status,      \* what main returned, -1 while it runs
  files,       \* main: files
  link_title,  \* list_item: link_title, by file
  rel_link,    \* list_item: rel_link, by file
  list_md,     \* main: list_md
  original,    \* main: original
  updated,     \* main: updated
  changed,     \* main: changed
  io           \* the file system operations of this run, in order

vars == <<fsDirs, fsFiles, fsClock, args, pc, run, exits, status, files,
          link_title, rel_link, list_md, original, updated, changed, io>>

\* How many times the script is run in a row.
MaxRuns == 2
\* The largest --group-heading-level tried.
MaxLevel == 2
\* The largest --group-depth tried.
MaxDepth == 2

\* Path.cwd()
Cwd == << <<"t", "m", "p">> >>
\* main: src_dir
SrcDir == Normalize(Cwd, args.src_dir)
\* main: target_file
TargetFile == Normalize(Cwd, args.target_file)
\* Path.exists()
Exists(path) == path \in fsDirs \/ path \in DOMAIN fsFiles

RECURSIVE InPathOrder(_)
\* The paths of a set in ascending order of their text.
InPathOrder(paths) ==
  IF paths = {} THEN <<>>
  ELSE LET first == CHOOSE p \in paths :
                      \A q \in paths : q = p \/ StrLess(AsPosix(p), AsPosix(q))
       IN <<first>> \o InPathOrder(paths \ {first})

\* src_dir.rglob("*") with the entries that are not regular files left out.
\* The order of a directory walk is the file system's; the model takes the
\* ascending order of the paths.
Walk(fsys, dir) == InPathOrder({p \in DOMAIN fsys : IsUnder(p, dir)})

Range(seq) == {seq[i] : i \in 1..Len(seq)}

\* main, lines 149-159: the two existence checks.
Enter ==
  /\ pc = "main"
  /\ IF ~Exists(SrcDir)
     THEN /\ io' = io \o <<"exists_src">>
          /\ status' = 2
          /\ pc' = "done"
     ELSE IF ~Exists(TargetFile)
     THEN /\ io' = io \o <<"exists_src", "exists_target">>
          /\ status' = 2
          /\ pc' = "done"
     ELSE /\ io' = io \o <<"exists_src", "exists_target">>
          /\ status' = status
          /\ pc' = "scan"
  /\ UNCHANGED <<fsDirs, fsFiles, fsClock, args, run, exits, files, link_title,
                 rel_link, list_md, original, updated, changed>>

\* main, lines 161-163: discovery and sorting.
Scan ==
  /\ pc = "scan"
  /\ files' = SortFiles(iter_markdown_files(Walk(fsFiles, SrcDir), SrcDir, args.exclude,
                                            ParseExts(args.extensions)),
                        args.sort, fsFiles)
  /\ io' = Append(io, "walk")
  /\ pc' = "render"
  /\ UNCHANGED <<fsDirs, fsFiles, fsClock, args, run, exits, status, link_title,
                 rel_link, list_md, original, updated, changed>>

\* main, lines 165-170: build_list_markdown, which reads every file for its title.
Render ==
  /\ pc = "render"
  /\ link_title' = [f \in Range(files) |-> LinkTitle(f, fsFiles)]
  /\ rel_link' = [f \in Range(files) |-> LinkPath(f, TargetFile, SrcDir)]
  /\ list_md' = build_list_markdown(files,
                   [f \in Range(files) |-> list_item(link_title'[f], rel_link'[f])],
                   SrcDir, args.group_by, args.group_depth,
                   args.group_heading_level, args.group_title_case)
  /\ io' = Append(io, "read_files")
  /\ pc' = "read"
  /\ UNCHANGED <<fsDirs, fsFiles, fsClock, args, run, exits, status, files,
                 original, updated, changed>>

\* main, line 172: the target file is read.
ReadTarget ==
  /\ pc = "read"
  /\ original' = read_text(fsFiles[TargetFile].text)
  /\ io' = Append(io, "read_target")
  /\ pc' = "replace"
  /\ UNCHANGED <<fsDirs, fsFiles, fsClock, args, run, exits, status, files,
                 link_title, rel_link, list_md, updated, changed>>

\* main, lines 173-179: the substitution, or status 3 when it raises.
Substitute ==
  /\ pc = "replace"
  /\ LET r == replace_between_markers(original, args.marker_start, args.marker_end, list_md)
     IN IF r.ok
        THEN /\ updated' = r.new
             /\ changed' = r.changed
             /\ status' = status
             /\ pc' = "finish"
        ELSE /\ updated' = updated
             /\ changed' = changed
             /\ status' = 3
             /\ pc' = "done"
  /\ UNCHANGED <<fsDirs, fsFiles, fsClock, args, run, exits, files, link_title,
                 rel_link, list_md, original, io>>

\* A variant of Finish that writes the target file whether or not it changed.
FinishAlwaysWrite ==
  /\ pc = "finish"
  /\ fsFiles' = [fsFiles EXCEPT ![TargetFile] =
                   [readable |-> TRUE, text |-> write_text(updated), mtime |-> fsClock]]
  /\ fsClock' = fsClock + 1
  /\ io' = Append(io, "write_target")
  /\ status' = IF changed /\ ~args.no_fail_on_change THEN 1 ELSE 0
  /\ pc' = "done"
  /\ UNCHANGED <<fsDirs, args, run, exits, files, link_title, rel_link, list_md,
                 original, updated, changed>>

\* main, lines 181-187: the write when the content changed, and the status.
Finish ==
  /\ pc = "finish"
  /\ IF changed
     THEN /\ fsFiles' = [fsFiles EXCEPT ![TargetFile] =
                           [readable |-> TRUE, text |-> write_text(updated), mtime |-> fsClock]]
          /\ fsClock' = fsClock + 1
          /\ io' = Append(io, "write_target")
          /\ status' = IF args.no_fail_on_change THEN 0 ELSE 1
     ELSE /\ fsFiles' = fsFiles
          /\ fsClock' = fsClock
          /\ io' = io
          /\ status' = 0
  /\ pc' = "done"
  /\ UNCHANGED <<fsDirs, args, run, exits, files, link_title, rel_link, list_md,
                 original, updated, changed>>

\* The script is run again (lines 189-190), on the file system as the run
\* before left it.
Rerun ==
  /\ pc = "done"
  /\ run < MaxRuns
  /\ run' = run + 1
  /\ exits' = Append(exits, status)
  /\ status' = -1
  /\ pc' = "main"
  /\ files' = <<>>
  /\ link_title' = <<>>
  /\ rel_link' = <<>>
  /\ list_md' = <<>>
  /\ original' = <<>>
  /\ updated' = <<>>
  /\ changed' = FALSE
  /\ io' = <<>>
  /\ UNCHANGED <<fsDirs, fsFiles, fsClock, args>>

Next == Enter \/ Scan \/ Render \/ ReadTarget \/ Substitute \/ Finish \/ Rerun

\* The state of a run that starts: nothing computed yet.
Fresh ==
  /\ pc = "main"
  /\ run = 1
  /\ exits = <<>>
  /\ status = -1
  /\ files = <<>>
  /\ link_title = <<>>
  /\ rel_link = <<>>
  /\ list_md = <<>>
  /\ original = <<>>
  /\ updated = <<>>
  /\ changed = FALSE
  /\ io = <<>>

(***************************************************************************)
(* Names and texts of the file systems tried                               *)
(***************************************************************************)
docs == <<"d", "o", "c", "s">>
adr == <<"a", "d", "r">>
readme == <<"R", "E", "A", "D", "M", "E", ".", "m", "d">>
a_md == <<"a", ".", "m", "d">>
\* Short markers stand for --marker-start and --marker-end.
MarkS == <<"<", "s", ">">>
MarkE == <<"<", "e", ">">>

File(text, mtime) == [readable |-> TRUE, text |-> text, mtime |-> mtime]

DefaultArgs ==
  [src_dir |-> <<docs, adr>>, target_file |-> <<readme>>,
   marker_start |-> MarkS, marker_end |-> MarkE,
   exclude |-> <<>>, extensions |-> <<"m", "d", ",", "M", "D">>,
   sort |-> "name", no_fail_on_change |-> FALSE,
   group_by |-> "none", group_depth |-> 1, group_heading_level |-> 2,
   group_title_case |-> "title"]

Sorts == {"name", "path", "mtime"}
GroupBys == {"none", "subdir"}
TitleCases == {"none", "title", "upper", "lower"}

(***************************************************************************)
(* Spec: runs of main on target files with and without markers             *)
(***************************************************************************)
\* The target contents tried: text, start marker or not, text, end marker or
\* not, text; the texts hold markers of their own in some, and a line that
\* ends in a carriage return and a line feed in one.
MainContents ==
  {Cat(<<pre, a, mid, b, suf>>) :
     pre \in {<<>>, <<"#", " ", "x", "\n">>, <<"x", "\r", "\n">>, MarkE},
     a \in {<<>>, MarkS},
     mid \in {<<>>, <<"o", "\n">>, MarkS},
     b \in {<<>>, MarkE},
     suf \in {<<>>, <<"\n", "y", "\n">>, MarkS \o MarkE}}

\* Where the target file lies: above the source directory or inside it.
MainTargets == {<<readme>>, <<docs, adr, readme>>}

Init ==
  /\ Fresh
  /\ fsClock = 3
  /\ \E srcThere \in BOOLEAN, targetThere \in BOOLEAN, content \in MainContents,
        target \in MainTargets, sort \in Sorts, group_by \in GroupBys,
        level \in 1..MaxLevel, quiet \in BOOLEAN :
       LET src == Normalize(Cwd, <<docs, adr>>)
           tgt == Normalize(Cwd, target)
       IN /\ (~srcThere \/ ~targetThere) =>
               /\ content = <<>>
               /\ sort = "name" /\ group_by = "none" /\ level = 1 /\ ~quiet
          /\ (~srcThere /\ targetThere) => ~IsUnder(tgt, src)
          /\ args = [DefaultArgs EXCEPT !.target_file = target, !.sort = sort,
                       !.group_by = group_by, !.group_heading_level = level,
                       !.no_fail_on_change = quiet]
          /\ fsDirs = {Cwd} \cup (IF srcThere THEN {Append(Cwd, docs), src} ELSE {})
          /\ fsFiles = [p \in (IF srcThere THEN {Append(src, a_md)} ELSE {})
                               \cup (IF targetThere THEN {tgt} ELSE {}) |->
                          IF p = tgt THEN File(content, 1)
                          ELSE File(<<"#", " ", "A", "\n">>, 2)]

Spec == Init /\ [][Next]_vars

(***************************************************************************)
(* Claims checked under Spec                                               *)
(***************************************************************************)
Wrote == \E i \in 1..Len(io) : io[i] = "write_target"

\* The content has a start marker with an end marker somewhere after it.
HasSpan(content, start, end) ==
  \E i \in 1..Len(content), j \in 1..Len(content) :
     OccursAt(content, start, i) /\ OccursAt(content, end, j) /\ j >= i + Len(start)

\* C1: when the first run got as far as the substitution (source directory,
\* target file and marker span all there), the second run, on the file system
\* the first one left, ends with status 0, finds nothing changed and does not
\* write the target file.
C1_SecondRunNoChange ==
  (run = 2 /\ pc = "done" /\ exits[1] \in {0, 1})
    => (status = 0 /\ ~changed /\ ~Wrote)

\* C3: the step of main that writes the target file leaves in it what the
\* file held before the first start marker, the start marker, a newline, the
\* rendered list, the end marker, and what the file held after the first end
\* marker that follows that start marker.
C3_OutsideMarkersKept ==
  [][(Len(io') = Len(io) + 1 /\ io'[Len(io')] = "write_target") =>
       LET start == args.marker_start
           end == args.marker_end
           held == fsFiles[TargetFile].text
           i == Find(held, start, 1)
           j == Find(held, end, i + Len(start))
       IN /\ i > 0 /\ j > 0
          /\ fsFiles'[TargetFile].text =
               Upto(held, i - 1) \o start \o <<"\n">> \o list_md \o end
                 \o From(held, j + Len(end))]_vars

\* C4: a finished run has status 2 exactly when the source directory or the
\* target file does not exist, and then it has neither walked nor read
\* anything; it has status 3 exactly when both exist and the content read from
\* the target has no start marker followed by an end marker; with either status
\* the target file was not written and, where it was read, still holds what was
\* read.
C4_FatalStatuses ==
  pc = "done" =>
    LET missing == ~Exists(SrcDir) \/ ~Exists(TargetFile)
    IN /\ (status = 2) <=> missing
       /\ (status = 2) => Range(io) \subseteq {"exists_src", "exists_target"}
       /\ (status = 3) <=>
            (~missing /\ ~HasSpan(original, args.marker_start, args.marker_end))
       /\ (status = 3) => (~Wrote /\ read_text(fsFiles[TargetFile].text) = original)
       /\ (status \in {2, 3}) => ~Wrote

\* C4's case: a run that ended with status 3 on a target that holds both
\* markers, the end marker only before the start marker.
C4_Witness ==
  /\ pc = "done" /\ status = 3
  /\ Contains(original, args.marker_start)
  /\ Contains(original, args.marker_end)

\* C5: a finished run that got past the substitution wrote the target file at
\* most once, as its last file system operation, and exactly when the new
\* content differs from the content read; the file then holds the new content;
\* the status is 1 exactly when the content changed and --no-fail-on-change is
\* not set, and 0 exactly when nothing changed or the option is set.
C5_WriteAndStatus ==
  (pc = "done" /\ status \notin {2, 3}) =>
    LET writes == {i \in 1..Len(io) : io[i] = "write_target"}
        differs == updated # original
    IN /\ Cardinality(writes) <= 1
       /\ writes \subseteq {Len(io)}
       /\ (writes # {}) <=> differs
       /\ fsFiles[TargetFile].text = (IF differs THEN write_text(updated) ELSE fsFiles[TargetFile].text)
       /\ read_text(fsFiles[TargetFile].text) = updated
       /\ fsFiles[TargetFile].mtime = (IF differs THEN fsClock - 1 ELSE fsFiles[TargetFile].mtime)
       /\ (status = 1) <=> (differs /\ ~args.no_fail_on_change)
       /\ (status = 0) <=> (~differs \/ args.no_fail_on_change)

\* C5's case: a run that changed the content and returned 0 because the option
\* is set, after a run that did the same.
C5_Witness ==
  /\ pc = "done" /\ run = 2 /\ Wrote /\ status = 0 /\ args.no_fail_on_change

\* C5's other case: a run that found nothing to change.
C5_WitnessUnchanged == pc = "done" /\ status = 0 /\ ~changed /\ ~Wrote

(***************************************************************************)
(* SpecReplace: replace_between_markers applied twice, as the test does     *)
(***************************************************************************)
\* The longest content tried.
MaxContentLen == 4
\* The longest replacement tried.
MaxReplLen == 2

\* Every string over an alphabet up to a length.
Strings(alphabet, n) == UNION {[1..k -> alphabet] : k \in 0..n}

\* The marker pairs tried: one character each, and two-character markers,
\* which a text can hold overlapping.
MarkerPairs == {<< <<"s">>, <<"e">> >>, << <<"s">>, <<"e", "e">> >>,
                << <<"s", "s">>, <<"e">> >>}

\* test_replace_between_markers, line 46: the first call.
TestReplace ==
  /\ pc = "test"
  /\ LET r == replace_between_markers(original, args.marker_start, args.marker_end, list_md)
     IN /\ updated' = r.new
        /\ changed' = r.changed
        /\ pc' = IF r.ok THEN "applied" ELSE "raised"
  /\ UNCHANGED <<fsDirs, fsFiles, fsClock, args, run, exits, status, files,
                 link_title, rel_link, list_md, original, io>>

\* test_replace_between_markers, line 50: the second call, on the first one's
\* result and with the same replacement.
TestReplaceAgain ==
  /\ pc = "applied"
  /\ LET r == replace_between_markers(updated, args.marker_start, args.marker_end, list_md)
     IN /\ original' = updated
        /\ updated' = r.new
        /\ changed' = r.changed
        /\ pc' = IF r.ok THEN "reapplied" ELSE "raised again"
  /\ UNCHANGED <<fsDirs, fsFiles, fsClock, args, run, exits, status, files,
                 link_title, rel_link, list_md, io>>

NextReplace == TestReplace \/ TestReplaceAgain

InitReplace ==
  /\ fsDirs = {Cwd}
  /\ fsFiles = <<>>
  /\ fsClock = 1
  /\ run = 1 /\ exits = <<>> /\ status = -1
  /\ files = <<>> /\ link_title = <<>> /\ rel_link = <<>>
  /\ updated = <<>> /\ changed = FALSE /\ io = <<>>
  /\ pc = "test"
  /\ \E m \in MarkerPairs :
       args = [DefaultArgs EXCEPT !.marker_start = m[1], !.marker_end = m[2]]
  /\ original \in Strings({"s", "e", "x"}, MaxContentLen)
  /\ list_md \in Strings({"s", "e", "x"}, MaxReplLen)

SpecReplace == InitReplace /\ [][NextReplace]_vars

Reapplied == pc \in {"reapplied", "raised again"}

\* The end marker occurs in newline + replacement + end marker only at the end.
EndOnlyAtEnd(replacement, end) ==
  Find(<<"\n">> \o replacement \o end, end, 1) = Len(replacement) + 2

\* C2 as stated: whatever the replacement, the second call succeeds, returns
\* the first call's result unchanged and reports changed = false.
C2_Idempotent ==
  Reapplied => (pc = "reapplied" /\ updated = original /\ ~changed)

\* C2, amended: the second call succeeds, returns the first call's result
\* unchanged and reports changed = false, when the end marker occurs in
\* newline + replacement + end marker nowhere before the end; the replacement
\* may hold the start marker.
C2_IdempotentUnlessEndInside ==
  (Reapplied /\ EndOnlyAtEnd(list_md, args.marker_end))
    => (pc = "reapplied" /\ updated = original /\ ~changed)

\* C2's case: a second call with a replacement that holds the start marker,
\* on a first result that differs from what the first call was given.
C2_Witness ==
  /\ pc = "reapplied"
  /\ EndOnlyAtEnd(list_md, args.marker_end)
  /\ Contains(list_md, args.marker_start)
  /\ updated = original /\ ~changed

(***************************************************************************)
(* SpecTitle, SpecExclude, SpecGroup: one run of main on file systems that  *)
(* vary the file texts, the exclusion patterns, and the grouping            *)
(***************************************************************************)
NextOnce == Enter \/ Scan \/ Render \/ ReadTarget \/ Substitute \/ Finish

\* A target file with both markers.
PlainTarget == File(Cat(<<<<"#", " ", "I", "n", "d", "e", "x", "\n">>, MarkS, <<"\n">>, MarkE, <<"\n">>>>), 1)

Rendered == pc \in {"read", "replace", "finish", "done"}

\* The most lines a file's text has.
MaxLines == 2

\* The lines the texts are made of: blank ones, headings with and without
\* text, deeper headings, plain lines.
TitleLines ==
  {<<>>, <<" ">>, <<"#">>, <<"#", " ">>, <<"#", " ", " ">>, <<"#", " ", "a">>,
   <<" ", "#", "\t", "a", " ">>, <<"b">>, <<" ", "b", " ">>, <<"#", "#", " ", "a">>,
   <<"#", "a">>}

TitleTexts == {Join(<<"\n">>, ls) : ls \in Strings(TitleLines, MaxLines)}

InitTitle ==
  /\ Fresh
  /\ fsClock = 3
  /\ args = DefaultArgs
  /\ fsDirs = {Cwd, Append(Cwd, docs), Normalize(Cwd, <<docs, adr>>)}
  /\ \E text \in TitleTexts, readable \in BOOLEAN :
       fsFiles = (Normalize(Cwd, <<docs, adr, a_md>>) :>
                    [readable |-> readable, text |-> text, mtime |-> 2])
                 @@ (Normalize(Cwd, <<readme>>) :> PlainTarget)

SpecTitle == InitTitle /\ [][NextOnce]_vars

\* A first-level heading as C8 describes it: "#", one or more spaces or tabs,
\* and text that is not blank (blanks may come before the "#").
IsHeadingLine(line) ==
  LET t == LStripChars(line, {" ", "\t"})
  IN /\ Len(t) >= 3
     /\ t[1] = "#"
     /\ t[2] \in {" ", "\t"}
     /\ Strip(Tail(t)) # <<>>

\* The title C8 describes.
DescribedTitle(path, file) ==
  LET lines == SplitLines(file.text)
      heads == {i \in 1..Len(lines) : IsHeadingLine(lines[i])}
      full == {i \in 1..Len(lines) : Strip(lines[i]) # <<>>}
  IN IF ~file.readable THEN Stem(path)
     ELSE IF heads # {}
          THEN Strip(Tail(LStripChars(lines[CHOOSE i \in heads : \A j \in heads : i <= j],
                                      {" ", "\t"})))
     ELSE IF full # {} THEN Strip(lines[CHOOSE i \in full : \A j \in full : i <= j])
     ELSE Stem(path)

\* C8: the title rendered for a file is the text of the first first-level
\* heading anywhere in it, else its first line that is not blank, else (and
\* when it cannot be read) its stem; it is never empty.
C8_TitleAsDescribed ==
  Rendered =>
    \A f \in DOMAIN link_title :
       /\ link_title[f] = DescribedTitle(f, fsFiles[f])
       /\ link_title[f] # <<>>

(***************************************************************************)
(* SpecExclude: discovery with exclusion patterns                          *)
(***************************************************************************)
\* The most --exclude options given.
MaxPatterns == 1

\* Paths under the source directory; notes.txt has another extension.
ExcludeFiles ==
  {<<<<"k", "e", "e", "p", ".", "m", "d">>>>,
   <<<<"a", "r", "c", "h", "i", "v", "e">>, <<"o", "l", "d", ".", "m", "d">>>>,
   <<<<".", "d", "r", "a", "f", "t", "s">>, <<"x", ".", "m", "d">>>>,
   <<<<"d", "r", "a", "f", "t", "s">>, <<"y", ".", "m", "d">>>>,
   <<<<"n", "o", "t", "e", "s", ".", "t", "x", "t">>>>}

ExcludePatterns ==
  {<<"a", "r", "c", "h", "i", "v", "e", "/", "*", "*">>,
   <<".", "d", "r", "a", "f", "t", "s", "/", "*">>,
   <<".", "/", "k", "e", "e", "p", ".", "m", "d">>,
   <<"a", "r", "c", "h", "i", "v", "e", "\\", "*">>,
   <<"k", "?", "?", "p", ".", "m", "d">>,
   <<"*", ".", "t", "x", "t">>}

ExtensionLists == {<<"m", "d", ",", "M", "D">>, <<" ", "t", "x", "t", " ", ",", " ", "m", "d", ",">>}

InitExclude ==
  /\ Fresh
  /\ fsClock = 3
  /\ \E present \in SUBSET ExcludeFiles, pats \in Strings(ExcludePatterns, MaxPatterns),
        extensions \in ExtensionLists :
       LET src == Normalize(Cwd, <<docs, adr>>)
       IN /\ args = [DefaultArgs EXCEPT !.exclude = pats, !.extensions = extensions]
          /\ fsDirs = {Cwd, Append(Cwd, docs), src}
                        \cup {src \o Parent(rel) : rel \in present}
          /\ fsFiles = [p \in {src \o rel : rel \in present} \cup {Normalize(Cwd, <<readme>>)} |->
                          IF p = Normalize(Cwd, <<readme>>) THEN PlainTarget
                          ELSE File(<<"#", " ", "T">>, 2)]

SpecExclude == InitExclude /\ [][NextOnce]_vars

\* The normalization C7 describes: backslashes to slashes, and a leading "./"
\* removed.
DescribedPattern(pat) ==
  LET p == ReplaceChar(pat, "\\", Slash)
  IN IF Len(p) >= 2 /\ p[1] = "." /\ p[2] = "/" THEN From(p, 3) ELSE p

Scanned == pc \in {"render", "read", "replace", "finish", "done"}

\* C7: the files found are exactly the regular files under the source
\* directory with an accepted extension whose relative path matches none of
\* the exclusion patterns, each pattern normalized as C7 describes.
C7_ExcludedAsDescribed ==
  Scanned =>
    Range(files) =
      {p \in DOMAIN fsFiles :
         /\ IsUnder(p, SrcDir)
         /\ LStripChars(Suffix(p), {"."}) \in ParseExts(args.extensions)
         /\ \A k \in 1..Len(args.exclude) :
              ~fnmatch(RelPosix(RelativeTo(p, SrcDir)), DescribedPattern(args.exclude[k]))}

(***************************************************************************)
(* SpecGroup: rendering with and without groups                            *)
(***************************************************************************)
\* The most files under the source directory.
MaxFiles == 3

f001 == <<<<"d", "b">>, <<"0", "0", "1", ".", "m", "d">>>>
f002 == <<<<"a", "p", "i">>, <<"0", "0", "2", ".", "m", "d">>>>
f003 == <<<<"0", "0", "3", ".", "m", "d">>>>
f004 == <<<<"D", "b", "-", "x">>, <<"0", "0", "4", ".", "m", "d">>>>
f005 == <<<<"a", "p", "i">>, <<"v", "1">>, <<"0", "0", "5", ".", "m", "d">>>>

\* The files of test_grouping_by_subdir, and two more: one in a directory whose
\* name has an upper-case letter and a dash, one two directories down.
GroupFiles == {f001, f002, f003, f004, f005}

GroupText(rel) ==
  IF rel = f001 THEN <<"#", " ", "D", "B", " ", "C", "h", "o", "i", "c", "e">>
  ELSE IF rel = f002 THEN <<"#", " ", "A", "P", "I", " ", "S", "t", "y", "l", "e">>
  ELSE IF rel = f003 THEN <<"#", " ", "R", "o", "o", "t", " ", "A", "D", "R">>
  ELSE IF rel = f004 THEN <<"#", " ", "[", "X", "]">>
  ELSE <<"v", "1", "\n">>

\* Modification times that order the files otherwise than their names do.
GroupMtime(rel) ==
  IF rel = f001 THEN 2 ELSE IF rel = f002 THEN 1 ELSE IF rel = f003 THEN 2
  ELSE IF rel = f004 THEN 1 ELSE 2

\* The target file above the source directory, inside it, in a directory
\* beside it, and below it.
GroupTargets ==
  {<<readme>>, <<docs, adr, readme>>, <<docs, <<"n", "o", "t", "e", "s">>, readme>>,
   <<docs, adr, <<"d", "b">>, readme>>}

InitGroup ==
  /\ Fresh
  /\ fsClock = 3
  /\ \E present \in SUBSET GroupFiles, target \in GroupTargets, sort \in Sorts,
        group_by \in GroupBys, depth \in 1..MaxDepth, level \in 1..MaxLevel,
        case \in TitleCases :
       LET src == Normalize(Cwd, <<docs, adr>>)
           tgt == Normalize(Cwd, target)
       IN /\ Cardinality(present) <= MaxFiles
          /\ group_by = "none" => (depth = 1 /\ level = 1 /\ case = "title")
          /\ target # <<readme>> => (sort = "name" /\ case = "title")
          /\ level # 2 => (depth = 1 /\ case = "title")
          /\ args = [DefaultArgs EXCEPT !.target_file = target, !.sort = sort,
                       !.group_by = group_by, !.group_depth = depth,
                       !.group_heading_level = level, !.group_title_case = case]
          /\ fsDirs = {Cwd, Append(Cwd, docs), src, Parent(tgt)}
                        \cup {src \o Parent(rel) : rel \in present}
          /\ fsFiles = [p \in {src \o rel : rel \in present} \cup {tgt} |->
                          IF p = tgt THEN PlainTarget
                          ELSE File(GroupText(RelativeTo(p, src)),
                                    GroupMtime(RelativeTo(p, src)))]

SpecGroup == InitGroup /\ [][NextOnce]_vars

\* The lines of the rendered list.
ListLines == SplitLines(list_md)
\* The headings among lines, in order.
HeaderLines(lines) == SelectSeq(lines, LAMBDA l : l # <<>> /\ l[1] = "#")
\* The items among lines, in order.
ItemLines(lines) == SelectSeq(lines, LAMBDA l : l # <<>> /\ l[1] = "-")
\* The list item of a file.
ItemOf(f) == list_item(link_title[f], rel_link[f])

\* The test's setting: its three files, the target above the source directory,
\* groups by subdirectory at depth 1, heading level 2, title case.
TestGrouping ==
  /\ Rendered
  /\ args.group_by = "subdir" /\ args.group_depth = 1
  /\ args.group_heading_level = 2 /\ args.group_title_case = "title"
  /\ Range(files) = {Normalize(Cwd, <<docs, adr>>) \o rel : rel \in {f001, f002, f003}}

HeadApi == <<"#", "#", " ", "A", "p", "i">>
HeadDb == <<"#", "#", " ", "D", "b">>
HeadMisc == <<"#", "#", " ", "M", "i", "s", "c">>

\* A file lies directly in the source directory.
HasUngrouped == \E f \in Range(files) : Len(RelativeTo(f, SrcDir)) = 1

\* The group key as the claims describe it: the first group-depth directories
\* of the file's path under the source directory, joined with "/".
DescribedKey(f) ==
  LET rel == RelativeTo(f, SrcDir)
      n == IF Len(rel) - 1 < args.group_depth THEN Len(rel) - 1 ELSE args.group_depth
  IN Join(Slash, [i \in 1..n |-> rel[i]])

\* The heading of a group of the given key.
HeadingOf(key) == GroupHeader(key, args.group_heading_level, args.group_title_case)

\* C6 as stated: in the test's setting the headings are Api, Db, Misc in this
\* order, each followed by its file's item; in general the Misc group comes
\* where the word Misc sorts among the group keys (case-insensitively).
C6_MiscSortedAsWord ==
  /\ TestGrouping =>
       ListLines = <<HeadApi, ItemOf(SrcDir \o f002), <<>>,
                     HeadDb, ItemOf(SrcDir \o f001), <<>>,
                     HeadMisc, ItemOf(SrcDir \o f003)>>
  /\ (Rendered /\ args.group_by = "subdir" /\ HasUngrouped) =>
       LET heads == HeaderLines(ListLines)
           misc == HeadingOf(<<>>)
       IN \A f \in Range(files) :
            LET key == DescribedKey(f)
            IN (key # <<>> /\ HeadingOf(key) # misc) =>
                 \A i \in 1..Len(heads), j \in 1..Len(heads) :
                    (heads[i] = HeadingOf(key) /\ heads[j] = misc) =>
                      (j < i <=> StrLess(<<"m", "i", "s", "c">>, Lower(key)))

\* C6, amended: in the test's setting the headings are Misc, Api, Db in this
\* order, each followed by its file's item with the file's heading as title;
\* in general the group of the files directly in the source directory comes
\* first, before every other group, and the other groups follow in ascending
\* order of their lower-cased keys.
C6_MiscFirst ==
  /\ TestGrouping =>
       /\ ListLines = <<HeadMisc, ItemOf(SrcDir \o f003), <<>>,
                        HeadApi, ItemOf(SrcDir \o f002), <<>>,
                        HeadDb, ItemOf(SrcDir \o f001)>>
       /\ link_title[SrcDir \o f001] = <<"D", "B", " ", "C", "h", "o", "i", "c", "e">>
       /\ link_title[SrcDir \o f002] = <<"A", "P", "I", " ", "S", "t", "y", "l", "e">>
       /\ link_title[SrcDir \o f003] = <<"R", "o", "o", "t", " ", "A", "D", "R">>
  /\ (Rendered /\ args.group_by = "subdir") =>
       LET heads == HeaderLines(ListLines)
           keys == {DescribedKey(f) : f \in Range(files)}
           before(k) == {l \in keys \ {k} : l = <<>> \/ (k # <<>> /\ StrLess(Lower(l), Lower(k)))}
       IN /\ Len(heads) = Cardinality(keys)
          /\ HasUngrouped => heads[1] = HeadingOf(<<>>)
          /\ \A k \in keys : heads[Cardinality(before(k)) + 1] = HeadingOf(k)

\* C6's case: the test's setting, rendered.
C6_Witness == TestGrouping /\ pc = "done"

\* The text of a rendered item's link: what follows the last "](", without the
\* closing parenthesis.
LinkOf(line) ==
  LET opens == {i \in 1..Len(line) : OccursAt(line, <<"]", "(">>, i)}
      last == CHOOSE i \in opens : \A j \in opens : i >= j
  IN SubSeq(line, last + 2, Len(line) - 1)

\* A link followed from a directory: each segment in turn, ".." going up.
Follow(dir, link) == Normalize(dir, SplitOn(link, "/"))

\* C9: every link in the rendered list, followed from the target file's
\* directory, leads to one of the files found, each file is led to by the link
\* of exactly one item, and that link is the one computed for the file.
C9_LinksResolve ==
  Rendered =>
    LET items == ItemLines(ListLines)
        dir == Parent(TargetFile)
    IN /\ \A f \in Range(files) : Follow(dir, rel_link[f]) = f
       /\ Len(items) = Len(files)
       /\ {Follow(dir, LinkOf(items[i])) : i \in 1..Len(items)} = Range(files)

\* C9's case: a target file beside the source directory, so that the links go
\* up and down, with files at two depths.
C9_Witness ==
  /\ Rendered
  /\ ~IsUnder(TargetFile, SrcDir)
  /\ \E f \in Range(files) : OccursAt(rel_link[f], DotDot, 1) /\ Len(RelativeTo(f, SrcDir)) = 3
  /\ \E f \in Range(files) : Len(RelativeTo(f, SrcDir)) = 1

\* C9's other cases: a target file inside the source directory, and one below it.
C9_WitnessInside ==
  /\ Rendered /\ Len(files) >= 3
  /\ Parent(TargetFile) = SrcDir

C9_WitnessBelow ==
  /\ Rendered /\ Len(files) >= 3
  /\ IsUnder(Parent(TargetFile), SrcDir)
  /\ \E f \in Range(files) : OccursAt(rel_link[f], DotDot, 1)

\* C10: without grouping the list is the files' items in sort order. With
\* groups by subdirectory every file has exactly one item and the list has no
\* other items; the item stands under the heading of the file's group, whose
\* key is the first group-depth directories of its relative path (the empty
\* key exactly for a file directly in the source directory); files of different
\* groups stand under different headings; and two files of one group stand in
\* the order the sorted list has them in.
C10_OrderedPartition ==
  Rendered =>
    LET lines == ListLines
        n == Len(files)
        item == <<>> \o [a \in 1..n |-> ItemOf(files[a])]
        key == <<>> \o [a \in 1..n |-> DescribedKey(files[a])]
        places == <<>> \o [a \in 1..n |-> {i \in 1..Len(lines) : lines[i] = item[a]}]
        headBefore(i) ==
          LET heads == {j \in 1..i : lines[j] # <<>> /\ lines[j][1] = "#"}
          IN IF heads = {} THEN 0 ELSE CHOOSE j \in heads : \A k \in heads : j >= k
        head == <<>> \o [i \in 1..Len(lines) |-> headBefore(i)]
    IN IF args.group_by = "none"
       THEN lines = item
       ELSE /\ Len(ItemLines(lines)) = n
            /\ \A a \in 1..n :
                 /\ Cardinality(places[a]) = 1
                 /\ (key[a] = <<>>) <=> (Len(RelativeTo(files[a], SrcDir)) = 1)
                 /\ \A i \in places[a] :
                      /\ head[i] > 0
                      /\ lines[head[i]] = HeadingOf(key[a])
            /\ \A a \in 1..n, b \in 1..n :
                 \A i \in places[a], j \in places[b] :
                    /\ (key[a] = key[b]) <=> (head[i] = head[j])
                    /\ (a < b /\ key[a] = key[b]) => i < j

\* C10's case: groups at depth 1 with two files in one group, one of them two
\* directories down, and a file directly in the source directory.
C10_Witness ==
  /\ Rendered
  /\ args.group_by = "subdir" /\ args.group_depth = 1
  /\ HasUngrouped
  /\ \E a \in 1..Len(files), b \in 1..Len(files) :
       /\ a < b
       /\ DescribedKey(files[a]) = DescribedKey(files[b])
       /\ Len(RelativeTo(files[a], SrcDir)) # Len(RelativeTo(files[b], SrcDir))

\* C10's other case: no grouping, with files in several directories.
C10_WitnessNone == Rendered /\ args.group_by = "none" /\ Len(files) >= 3

====
